---- MODULE Spec2Model ----
(***************************************************************************)
(* Bounded process execution and the JSON-RPC bridge of aio_server:        *)
(* ExecutionService.execute_file and ExecutionService.execute_json_rpc     *)
(* (app/services/exec_service.py), one call at a time, with the child      *)
(* process, the clock and the file system as the environment.              *)
(***************************************************************************)
EXTENDS Integers, Sequences, FiniteSets, TLC

\* ------------------------------------------------------------------------
\* Bounds of the model
\* ------------------------------------------------------------------------
MaxOut == 1      \* chunks a child writes to stdout before it exits
MaxErr == 1      \* chunks a child writes to stderr before it exits
MaxTick == 0     \* clock ticks counted one by one before jumping to the deadline
MaxCalls == 2    \* calls made one after the other

\* ------------------------------------------------------------------------
\* Program constants
\* ------------------------------------------------------------------------
EchoLimit == 10000          \* len(stdin_data) > 10000 : temporary file
Base64Limit == 1000000      \* len(params["base64_data"]) > 1000000
LargeTimeout == 60          \* timeout = max(timeout, 60)
DefaultId == 1              \* id if id is not None else 1
ParseErrorCode == 0 - 32700
InternalErrorCode == 0 - 32603
ShellNotFound == 127        \* exit status of sh when the command is not found

\* Python's Optional: None is the empty tuple, a value x is <<x>>
None == <<>>
Some(x) == <<x>>

\* ------------------------------------------------------------------------
\* Bytes and text.  Output is a sequence of chunks: plain text that is no
\* JSON, a byte sequence that is not valid UTF-8, or the text of one JSON
\* document.
\* ------------------------------------------------------------------------
NoDoc == [kind |-> "none", id |-> None]
\* JSON documents a child may print: a response with a result, a response
\* with an error, or a bare JSON value (a number)
ChildDocs == { [kind |-> "result", id |-> Some(7)],
               [kind |-> "error",  id |-> Some(7)],
               [kind |-> "value",  id |-> None] }
Garbage == [t |-> "text", doc |-> NoDoc]
BadUtf8 == [t |-> "badutf8", doc |-> NoDoc]
Replacement == [t |-> "U+FFFD", doc |-> NoDoc]
JsonChunk(d) == [t |-> "json", doc |-> d]
OutChunks == {Garbage, BadUtf8} \cup {JsonChunk(d) : d \in ChildDocs}
ErrChunks == {Garbage}

\* bytes.decode('utf-8', errors='replace')
Decode(bytes) ==
  [i \in DOMAIN bytes |-> IF bytes[i].t = "badutf8" THEN Replacement ELSE bytes[i]]

\* stdout.decode('utf-8', errors='replace') if stdout else None
DecodeOrNone(bytes) == IF Len(bytes) > 0 THEN Some(Decode(bytes)) ELSE None

\* ------------------------------------------------------------------------
\* Messages: a format and its arguments
\* ------------------------------------------------------------------------
Msg(fmt) == [fmt |-> fmt, n |-> None, e |-> ""]
MsgN(fmt, n) == [fmt |-> fmt, n |-> Some(n), e |-> ""]
MsgE(fmt, e) == [fmt |-> fmt, n |-> None, e |-> e]

\* ------------------------------------------------------------------------
\* ExecutionResponse (app/models/schemas.py) and the outcomes execute_file
\* builds
\* ------------------------------------------------------------------------
ExecutionResponse(success, stdout, stderr, exit_code, execution_time, message) ==
  [success |-> success, stdout |-> stdout, stderr |-> stderr,
   exit_code |-> exit_code, execution_time |-> execution_time,
   message |-> message]

\* Unable to set executable permissions
PermissionOutcome(e) ==
  ExecutionResponse(FALSE, None, None, None, None,
                    MsgE("Unable to set executable permissions: {e}", e))

\* variant: any exit counts as a success
CompletedOutcomeAnyExit(rc, out, err, t) ==
  ExecutionResponse(TRUE, DecodeOrNone(out), DecodeOrNone(err), Some(rc), Some(t),
                    Msg("Execution successful"))

CompletedOutcome(rc, out, err, t) ==
  ExecutionResponse(rc = 0, DecodeOrNone(out), DecodeOrNone(err), Some(rc), Some(t),
                    IF rc = 0 THEN Msg("Execution successful")
                              ELSE MsgN("Execution failed, exit code: {n}", rc))

StartTimeoutOutcome(timeout) ==
  ExecutionResponse(TRUE, None, None, None, Some(timeout),
                    Msg("Service start successfully"))

TimeoutOutcome(timeout) ==
  ExecutionResponse(FALSE, None, None, None, Some(timeout),
                    MsgN("Execution timeout (>{n} seconds)", timeout))

\* Execution failed: str(e)
ExceptionOutcome(e) ==
  ExecutionResponse(FALSE, None, None, None, None,
                    MsgE("Execution failed: {e}", e))

\* ------------------------------------------------------------------------
\* Exceptions and the result of a function: a returned value or an
\* exception that leaves it
\* ------------------------------------------------------------------------
Exc(type, text) == [type |-> type, text |-> text]
NoExc == Exc("", "")
Ret(o) == [exc |-> NoExc, value |-> Some(o)]
Raise(e) == [exc |-> e, value |-> None]
ENOENT == Exc("FileNotFoundError", "[Errno 2] No such file or directory")
EPERM == Exc("PermissionError", "[Errno 1] Operation not permitted")
EAGAIN == Exc("BlockingIOError", "[Errno 11] Resource temporarily unavailable")
TimeoutError == Exc("TimeoutError", "")         \* str(asyncio.TimeoutError()) == ''
TypeError == Exc("TypeError", "Object is not JSON serializable")
\* the classes derived from Exception among them
ExceptionSubclasses ==
  {"FileNotFoundError", "PermissionError", "BlockingIOError", "TimeoutError",
   "TypeError"}

\* try: os.chmod(...) except Exception as e: return ExecutionResponse(...)
ChmodExcept(e) ==
  IF e.type \in ExceptionSubclasses THEN Ret(PermissionOutcome(e.text)) ELSE Raise(e)

\* variant: except OSError as e
OuterExceptOSError(e) ==
  IF e.type \in {"FileNotFoundError", "PermissionError", "BlockingIOError"}
    THEN Ret(ExceptionOutcome(e.text)) ELSE Raise(e)

\* the outer try of execute_file: except Exception as e: return ...
OuterExcept(e) ==
  IF e.type \in ExceptionSubclasses THEN Ret(ExceptionOutcome(e.text)) ELSE Raise(e)

\* ------------------------------------------------------------------------
\* Inputs of a call
\* ------------------------------------------------------------------------
\* stdin_data: whether it was given, its length, what json.loads makes of it
\* and the value of its "method" member
StdinData(present, len, json, m) ==
  [present |-> present, len |-> len, json |-> json, method |-> m]
NoStdin == StdinData(FALSE, 0, "invalid", "")
StdinSamples ==
  { NoStdin,
    StdinData(TRUE, 0, "invalid", ""),              \* ""
    StdinData(TRUE, 5, "invalid", ""),              \* hello
    StdinData(TRUE, 3, "nonobject", ""),            \* [1]
    StdinData(TRUE, 18, "object", "start"),         \* {"method":"start"}
    StdinData(TRUE, 17, "object", "echo"),
    StdinData(TRUE, EchoLimit, "object", "start"),
    StdinData(TRUE, EchoLimit + 1, "object", "start"),
    StdinData(TRUE, EchoLimit + 1, "invalid", "") }
Timeouts == {1, 90}
Methods == {"start", "echo"}
Ids == {None, Some(7)}

\* if stdin_data:
Truthy(s) == s.present /\ s.len > 0

\* which of the three branches of execute_file delivers the payload
DeliveryPath(s) ==
  IF Truthy(s)
    THEN IF s.len > EchoLimit THEN "tempfile" ELSE "echo"
    ELSE "exec"

\* request_data = json.loads(stdin_data); request_data.get("method") == "start"
\* with the two exceptions the handler catches
StdinMethodCheck(s) ==
  CASE s.json = "invalid" -> "JSONDecodeError"
    [] s.json = "nonobject" -> "AttributeError"
    [] OTHER -> IF s.method = "start" THEN "start" ELSE "other"

\* variant: no start exception, as in the branch without stdin
EchoTimeoutResultNoStart(s, t) == TimeoutOutcome(t)

\* except asyncio.TimeoutError of the echo branch, after the kill
EchoTimeoutResult(s, t) ==
  IF StdinMethodCheck(s) = "start" THEN StartTimeoutOutcome(t) ELSE TimeoutOutcome(t)

\* the file on disk: whether it exists, whether os.access(X_OK) holds and
\* whether os.chmod is permitted
FileState(exists, exec, chmodOk) ==
  [exists |-> exists, exec |-> exec, chmodOk |-> chmodOk]
MissingFile == FileState(FALSE, FALSE, FALSE)
FileStates ==
  { MissingFile, FileState(TRUE, TRUE, TRUE),
    FileState(TRUE, FALSE, TRUE), FileState(TRUE, FALSE, FALSE) }

\* os.access(filepath, os.X_OK)
Access(f) == f.exists /\ f.exec

\* os.chmod(filepath, 0o755): the exception it raises, NoExc when it succeeds
ChmodError(f) ==
  IF ~f.exists THEN ENOENT ELSE IF ~f.chmodOk THEN EPERM ELSE NoExc

\* ------------------------------------------------------------------------
\* State
\* ------------------------------------------------------------------------
VARIABLES
  pc,         \* position of the call in progress
  calls,      \* calls started so far
  entry,      \* "file": execute_file was called, "rpc": execute_json_rpc
  file,       \* the executable on disk
  stdin,      \* stdin_data of execute_file
  timeout,    \* timeout of execute_file
  method,     \* method of execute_json_rpc
  params,     \* params of execute_json_rpc
  id,         \* id of execute_json_rpc
  request,    \* the request envelope serialized for the child, if any
  proc,       \* the child process of this call
  elapsed,    \* seconds waited in wait_for
  waitEnd,    \* how wait_for ended: "none", "completed", "timeout"
  outcome,    \* what execute_file returned, if it has
  raised,     \* the exception that left the called function, "" if none
  envelope,   \* what execute_json_rpc returned, if it has
  tempFiles,  \* temporary files on disk
  stored,     \* the name the file has in its upload directory
  route,      \* the HTTP request in progress, if any
  sample,     \* a request handed to the sample executable and its response
  cors,       \* a request in the middleware and its response
  pipe,       \* a stdin payload and what the child reads of it
  inflight,   \* calls of execute_file that run at the same time
  disk        \* the mcp upload directory and the uploads in progress

vars == <<pc, calls, entry, file, stdin, timeout, method, params, id, request,
          proc, elapsed, waitEnd, outcome, raised, envelope, tempFiles,
          stored, route, sample, cors, pipe, inflight, disk>>
\* the state of the HTTP layer and of the sample executable
webVars == <<stored, route, sample>>
\* the state of the middleware, of the stdin pipe, of concurrent calls and of
\* the uploads
sideVars == <<cors, pipe, inflight, disk>>

NoProc == [state |-> "none", path |-> "none", rc |-> None, out |-> <<>>,
           err |-> <<>>, notFound |-> FALSE, kills |-> 0, killErrors |-> 0,
           spawns |-> 0]

\* ------------------------------------------------------------------------
\* params of execute_json_rpc.  A sample records what the expressions of
\* execute_json_rpc make of the value: its truth value, the result of
\* "base64_data" in params, of len(params["base64_data"]), of json.dumps.
\* ------------------------------------------------------------------------
Params(name, truthy, contains, item, b64len, serializable, jsonlen) ==
  [name |-> name, truthy |-> truthy, contains |-> contains, item |-> item,
   b64len |-> b64len, serializable |-> serializable, jsonlen |-> jsonlen]
\* {"base64_data": "<n characters>"}
Base64Params(n) == Params("base64", TRUE, "true", "sized", n, TRUE, 18 + n)
NoParams == Params("None", FALSE, "false", "none", 0, TRUE, 2)
ParamsSamples ==
  { NoParams,
    Params("{}", FALSE, "false", "none", 0, TRUE, 2),
    Base64Params(10),
    Base64Params(9931),         \* method start: a request of 10000 characters
    Base64Params(9932),         \* method start: a request of 10001 characters
    Base64Params(Base64Limit),
    Base64Params(Base64Limit + 1),
    Params("{base64_data:5}", TRUE, "true", "TypeError", 0, TRUE, 17),
    Params("5", TRUE, "TypeError", "none", 0, TRUE, 1),
    Params("'base64_data'", TRUE, "true", "TypeError", 0, TRUE, 13),
    Params("[1]", TRUE, "false", "none", 0, TRUE, 3),
    Params("['base64_data']", TRUE, "true", "TypeError", 0, TRUE, 15),
    Params("{x:b'\\x00'}", TRUE, "false", "none", 0, FALSE, 0) }

Max(a, b) == IF a >= b THEN a ELSE b

\* params and "base64_data" in params and len(params["base64_data"]) > 1000000
Base64Check(p) ==
  IF ~p.truthy THEN "small"
  ELSE IF p.contains = "TypeError" THEN "TypeError"
  ELSE IF p.contains = "false" THEN "small"
  ELSE IF p.item = "TypeError" THEN "TypeError"
  ELSE IF p.b64len > Base64Limit THEN "large"
  ELSE "small"

\* variant: a large payload sets the timeout to 60 seconds
EffectiveTimeoutSixty(p, t) ==
  IF Base64Check(p) = "large" THEN LargeTimeout ELSE t

EffectiveTimeout(p, t) ==
  IF Base64Check(p) = "large" THEN Max(t, LargeTimeout) ELSE t

\* "id": id if id is not None else 1
RequestId(i) == IF i # None THEN i ELSE Some(DefaultId)

\* the request envelope
Request(m, i) == [jsonrpc |-> "2.0", method |-> m, id |-> RequestId(i)]

\* json.dumps(request, ensure_ascii=False, separators=(',', ':')): the
\* string the child reads, {"jsonrpc":"2.0","method":"M","params":P,"id":I}
MethodLen(m) == IF m = "start" THEN 5 ELSE 4
IdLen(i) == 1       \* the ids of the model are written with one digit
Serialize(m, p, i) ==
  StdinData(TRUE, 45 + MethodLen(m) + p.jsonlen + IdLen(RequestId(i)), "object", m)

\* ------------------------------------------------------------------------
\* Response envelopes
\* ------------------------------------------------------------------------
NoData == [present |-> FALSE, has_stdout |-> FALSE, stdout |-> None,
           stderr |-> None, exit_code |-> None, parse_error |-> FALSE]
NoResult == [status |-> "", message |-> ""]
NoMsg == Msg("")

ErrorEnvelope(code, message, data, i) ==
  [jsonrpc |-> "2.0", kind |-> "error", code |-> code, message |-> message,
   data |-> data, result |-> NoResult, id |-> i]

\* variant: the code of the other synthesized errors
SerializeErrorEnvelopeInternal(e, i) ==
  ErrorEnvelope(InternalErrorCode, MsgE("Failed to serialize request: {e}", e), NoData, i)

SerializeErrorEnvelope(e, i) ==
  ErrorEnvelope(ParseErrorCode, MsgE("Failed to serialize request: {e}", e), NoData, i)

\* if not result.success
FailureEnvelope(result, i) ==
  ErrorEnvelope(InternalErrorCode, result.message,
                [NoData EXCEPT !.present = TRUE, !.stderr = result.stderr,
                               !.exit_code = result.exit_code], i)

StartEnvelope(i) ==
  [jsonrpc |-> "2.0", kind |-> "result", code |-> 0, message |-> NoMsg,
   data |-> NoData,
   result |-> [status |-> "success", message |-> "Service started successfully"],
   id |-> i]

\* variant: the error carries no data
NoOutputEnvelopeNoData(result, i) ==
  ErrorEnvelope(InternalErrorCode, Msg("Execution successful but no output"),
                NoData, i)

NoOutputEnvelope(result, i) ==
  ErrorEnvelope(InternalErrorCode, Msg("Execution successful but no output"),
                [NoData EXCEPT !.present = TRUE, !.stderr = result.stderr,
                               !.exit_code = result.exit_code], i)

\* variant: the data of the other error envelopes, without stdout
InvalidJsonEnvelopeNoStdout(result, i) ==
  ErrorEnvelope(InternalErrorCode, Msg("Response is not a valid JSON-RPC response"),
                [NoData EXCEPT !.present = TRUE, !.stderr = result.stderr,
                               !.exit_code = result.exit_code,
                               !.parse_error = TRUE], i)

\* except json.JSONDecodeError
InvalidJsonEnvelope(result, i) ==
  ErrorEnvelope(InternalErrorCode, Msg("Response is not a valid JSON-RPC response"),
                [present |-> TRUE, has_stdout |-> TRUE, stdout |-> result.stdout,
                 stderr |-> result.stderr, exit_code |-> result.exit_code,
                 parse_error |-> TRUE], i)

\* json.loads(result.stdout): the document, or None for JSONDecodeError
JsonLoads(text) ==
  IF Len(text) = 1 /\ text[1].t = "json" THEN Some(text[1].doc) ELSE None

\* return response: the document the child printed, as it is
ChildErrorCode == 0 - 32601
Passthrough(doc) ==
  [jsonrpc |-> IF doc.kind = "value" THEN "" ELSE "2.0",
   kind |-> doc.kind,
   code |-> IF doc.kind = "error" THEN ChildErrorCode ELSE 0,
   message |-> IF doc.kind = "error" THEN Msg("child error") ELSE NoMsg,
   data |-> NoData,
   result |-> IF doc.kind = "result" THEN [status |-> "child", message |-> ""]
                                     ELSE NoResult,
   id |-> doc.id]

\* variant: stdout is parsed before result.success is looked at
ParseResponseStdoutFirst(result, m, i) ==
  IF result.stdout # None
    THEN IF JsonLoads(result.stdout[1]) # None
           THEN Passthrough(JsonLoads(result.stdout[1])[1])
           ELSE InvalidJsonEnvelope(result, i)
  ELSE IF ~result.success THEN FailureEnvelope(result, i)
  ELSE IF m = "start" THEN StartEnvelope(i)
  ELSE NoOutputEnvelope(result, i)

\* the part of execute_json_rpc after execute_file has returned
ParseResponse(result, m, i) ==
  IF ~result.success THEN FailureEnvelope(result, i)
  ELSE IF result.stdout # None
    THEN IF JsonLoads(result.stdout[1]) # None
           THEN Passthrough(JsonLoads(result.stdout[1])[1])
           ELSE InvalidJsonEnvelope(result, i)
  ELSE IF m = "start" THEN StartEnvelope(i)
  ELSE NoOutputEnvelope(result, i)

\* ------------------------------------------------------------------------
\* File names (app/services/file_service.py).  The names of the model are
\* one stem followed by ".bin" a number of times, and a name is that
\* number: 0 is "F", 1 is "F.bin", 2 is "F.bin.bin".  Both upload
\* directories hold the file under the same name.
\* ------------------------------------------------------------------------
FileNames == {0, 1}           \* the filename of a request
StoredNames == {0, 1, 2}      \* the name of the file on disk
FileTypes == {"agent", "mcp"}

\* filename.endswith('.bin')
EndsWithBin(name) == name >= 1

\* FileService.get_file_path
get_file_path(name) == IF ~EndsWithBin(name) THEN name + 1 ELSE name

\* FileService.file_exists(path) and os.path.exists(path), the disk holding
\* file f under the name s
file_exists(path, f, s) == f.exists /\ path = s

\* the path execute_rpc looks the file up under, None when it finds none
ResolvePath(ft, name, f, s) ==
  IF ft = "mcp"
    THEN IF file_exists(get_file_path(name) + 1, f, s)
           THEN Some(get_file_path(name) + 1)
         ELSE IF file_exists(get_file_path(name), f, s)
           THEN Some(get_file_path(name))
         ELSE None
    ELSE IF file_exists(get_file_path(name), f, s)
           THEN Some(get_file_path(name))
           ELSE None

\* ------------------------------------------------------------------------
\* The HTTP layer (app/api/routes.py)
\* ------------------------------------------------------------------------
\* rpc_request: present is its truth value (false for no body and for {}),
\* method is "" when the key is missing or its value is falsy
Body(present, m, p, i) == [present |-> present, method |-> m, params |-> p, id |-> i]
NoBody == Body(FALSE, "", NoParams, None)
\* params of a JSON body: absent or null, and the number 5
RouteParams == {p \in ParamsSamples : p.name \in {"None", "5"}}
Bodies ==
  {NoBody} \cup {Body(TRUE, "", NoParams, i) : i \in Ids}
           \cup {Body(TRUE, m, p, i) : m \in Methods, p \in RouteParams, i \in Ids}
\* timeout: int = Query(30, ge=1, le=300)
RouteTimeout == 30

\* rpc_request.get("id") if rpc_request else None
BodyId(body) == IF body.present THEN body.id ELSE None

HttpResponse(status, content) == [status |-> status, content |-> content]
NotFoundCode == 0 - 32602
InvalidRequestCode == 0 - 32600
ServerErrorCode == 0 - 32000
NotFoundResponse(body) ==
  HttpResponse(404, ErrorEnvelope(NotFoundCode, Msg("File does not exist: {filename}"),
                                  NoData, BodyId(body)))
ChmodFailedResponse(body) ==
  HttpResponse(500, ErrorEnvelope(ServerErrorCode, Msg("Failed to set execute permissions"),
                                  NoData, BodyId(body)))
MissingRequestResponse ==
  HttpResponse(400, ErrorEnvelope(InvalidRequestCode,
                                  Msg("Invalid request: Missing JSON-RPC request object"),
                                  NoData, None))
MissingMethodResponse(body) ==
  HttpResponse(400, ErrorEnvelope(InvalidRequestCode,
                                  Msg("Invalid request: Missing method field"),
                                  NoData, body.id))
\* except Exception as e, around the whole route
RouteExceptResponse(e, body) ==
  HttpResponse(500, ErrorEnvelope(ServerErrorCode, MsgE("{e}", e), NoData, BodyId(body)))
\* JSONResponse(content=result)
ResultResponse(result) == HttpResponse(200, result)

\* variant: the request object is validated before the file is looked up
RpcChecksRequestFirst(ft, name, body, f, s) ==
  IF ~body.present THEN Some(MissingRequestResponse)
  ELSE IF body.method = "" THEN Some(MissingMethodResponse(body))
  ELSE IF ResolvePath(ft, name, f, s) = None THEN Some(NotFoundResponse(body))
  ELSE IF ft = "mcp" /\ ChmodError(f) # NoExc THEN Some(ChmodFailedResponse(body))
  ELSE None

\* what execute_rpc answers before it calls execute_json_rpc, None when it
\* goes on to call it
RpcChecks(ft, name, body, f, s) ==
  IF ResolvePath(ft, name, f, s) = None THEN Some(NotFoundResponse(body))
  ELSE IF ft = "mcp" /\ ChmodError(f) # NoExc THEN Some(ChmodFailedResponse(body))
  ELSE IF ~body.present THEN Some(MissingRequestResponse)
  ELSE IF body.method = "" THEN Some(MissingMethodResponse(body))
  ELSE None

\* the file after the os.chmod(file_path, 0o755) of execute_rpc
RpcChmod(ft, name, f, s) ==
  IF ft = "mcp" /\ ResolvePath(ft, name, f, s) # None /\ ChmodError(f) = NoExc
    THEN [f EXCEPT !.exec = TRUE]
    ELSE f

\* POST /execute/{file_type}?filename=...: the status it answers with before
\* it runs the file, 0 when it runs it
ExecuteDetail(status) ==
  CASE status = 404 -> Msg("File does not exist")
    [] status = 403 -> Msg("File does not have execute permission")
    [] OTHER -> NoMsg
\* variant: a file without execute permission is handed to the runner
ExecuteChecksNoPermissionCheck(name, f, s) ==
  IF ~file_exists(name, f, s) THEN 404 ELSE 0
ExecuteChecks(name, f, s) ==
  IF ~file_exists(name, f, s) THEN 404
  ELSE IF ~Access(f) THEN 403
  ELSE 0
\* {"detail": message} and {"output": stdout}
DetailResponse(status, message) ==
  HttpResponse(status, [detail |-> message, output |-> None])
OutputResponse(stdout) ==
  HttpResponse(200, [detail |-> NoMsg, output |-> stdout])
\* the answer of the execute endpoint to the outcome of the runner
ExecuteResult(result) ==
  IF result.success THEN OutputResponse(result.stdout)
                    ELSE DetailResponse(500, result.message)

NoRoute == [kind |-> "none", file_type |-> "", filename |-> 0, body |-> NoBody,
            path |-> None, response |-> None]

\* ------------------------------------------------------------------------
\* The sample executable (examples/sample_rpc.py)
\* ------------------------------------------------------------------------
METHODS == {"hello", "add", "echo", "sleep", "error"}

\* a request object.  jsonrpc and method are "" when the key is missing or
\* its value is falsy, "[]" is a method that is a JSON array; paramsOk: params
\* is a mapping with the values the handlers convert
SampleRequest(jsonrpc, m, i, paramsOk) ==
  [jsonrpc |-> jsonrpc, method |-> m, id |-> i, paramsOk |-> paramsOk]
SampleRequests ==
  { SampleRequest(v, m, i, ok) :
      v \in {"2.0", "1.0", ""}, m \in METHODS \cup {"", "start", "[]"},
      i \in {None, Some(1), Some(7)}, ok \in BOOLEAN }

SampleResponse(has_result, has_error, code, i) ==
  [jsonrpc |-> "2.0", has_result |-> has_result, has_error |-> has_error,
   code |-> code, id |-> i]
SampleError(code, i) == SampleResponse(FALSE, TRUE, code, i)
SampleResult(i) == SampleResponse(TRUE, FALSE, 0, i)

\* handler(params) raises: handle_error always, handle_echo never, the
\* others when params is not what they read
HandlerRaises(m, paramsOk) == m = "error" \/ (m # "echo" /\ ~paramsOk)

\* method not in METHODS on a method that is a list
Unhashable == Exc("TypeError", "unhashable type: 'list'")

handle_request(req) ==
  IF req.jsonrpc # "2.0" THEN Ret(SampleError(InvalidRequestCode, req.id))
  ELSE IF req.method = "" THEN Ret(SampleError(InvalidRequestCode, req.id))
  ELSE IF req.method = "[]" THEN Raise(Unhashable)
  ELSE IF req.method \notin METHODS THEN Ret(SampleError(ChildErrorCode, req.id))
  ELSE IF HandlerRaises(req.method, req.paramsOk)
    THEN Ret(SampleError(InternalErrorCode, req.id))
  ELSE Ret(SampleResult(req.id))

\* main() on an input that json.loads reads as the object req: the response
\* it prints
main(req) ==
  IF handle_request(req).exc # NoExc
    THEN SampleError(InternalErrorCode, None)
    ELSE handle_request(req).value[1]

\* json.loads of the request execute_json_rpc serialized
ReadRequest(r, p) ==
  SampleRequest(r.jsonrpc, r.method, r.id,
                p.name \in {"None", "{}", "base64"})
\* the JSON document of a response
SampleDoc(resp) ==
  [kind |-> IF resp.has_result THEN "result" ELSE "error", id |-> resp.id]
\* what execute_json_rpc returns when the child is the sample executable,
\* exits with 0 in time and has printed its response
RoundTrip(m, p, i) ==
  ParseResponse(
    CompletedOutcome(0, <<JsonChunk(SampleDoc(main(ReadRequest(Request(m, i), p))))>>,
                     <<>>, 0),
    m, i)

NoSample == [req |-> None, resp |-> None, envelope |-> None]

\* ------------------------------------------------------------------------
\* The CORS and logging middleware (app/api/server.py)
\* ------------------------------------------------------------------------
HttpMethods == {"OPTIONS", "GET", "POST", "DELETE"}
\* the Origin header of a request, None when it has none
Origins == {None, Some("http://example.com"), Some("https://app.test")}
\* what call_next(request) gives: the status of the response of the route
\* handler (or of the router, 404 and 405), 0 when it raises
HandlerStatuses == {0, 200, 400, 404, 405, 500}

\* request.headers.get("origin", "*")
AllowOrigin(origin) == IF origin # None THEN origin[1] ELSE "*"

CorsResponse(status, allow_origin, max_age, routed) ==
  [status |-> status, allow_origin |-> allow_origin, max_age |-> max_age,
   routed |-> routed]
\* if request.method == "OPTIONS"
PreflightResponse(origin) == CorsResponse(200, AllowOrigin(origin), Some(3600), FALSE)
\* response = await call_next(request) and the headers set on it, or the
\* response of except Exception
ActualResponse(origin, status) ==
  CorsResponse(IF status = 0 THEN 500 ELSE status, AllowOrigin(origin), None, TRUE)

combined_middleware(req, status) ==
  IF req.method = "OPTIONS" THEN PreflightResponse(req.origin)
                            ELSE ActualResponse(req.origin, status)

NoCors == [req |-> None, routed |-> None, response |-> None]

\* ------------------------------------------------------------------------
\* The stdin payload on its way to the child (execute_file, lines 59-149).
\* A text is a sequence of characters: "x" a plain character, "q" the
\* single quote, "b" the backslash, "n" the letter n, "LF" the newline.  A
\* payload is a text followed by pad plain characters.
\* ------------------------------------------------------------------------
MaxText == 2
Chars == {"x", "q", "b", "n"}
Texts == UNION {[1..k -> Chars] : k \in 0..MaxText}
Pads == {0, 9999}
Payload(text, pad) == [text |-> text, pad |-> pad]
PayloadLen(p) == Len(p.text) + p.pad
\* /bin/sh of the host: the echo of bash prints its argument as it is, the
\* echo of dash interprets backslash sequences
Shells == {"bash", "dash"}

RECURSIVE Escape(_)
\* stdin_data.replace("'", "'\\''")
Escape(text) ==
  IF text = <<>> THEN <<>>
  ELSE IF Head(text) = "q" THEN <<"q", "b", "q", "q">> \o Escape(Tail(text))
  ELSE <<Head(text)>> \o Escape(Tail(text))

RECURSIVE ShellWord(_, _)
\* the word the shell makes of the quoted text: inside single quotes every
\* character is literal, outside a backslash quotes the next character
ShellWord(cmd, quoted) ==
  IF cmd = <<>> THEN <<>>
  ELSE IF Head(cmd) = "q" THEN ShellWord(Tail(cmd), ~quoted)
  ELSE IF ~quoted /\ Head(cmd) = "b" /\ Len(cmd) >= 2
    THEN <<cmd[2]>> \o ShellWord(Tail(Tail(cmd)), quoted)
  ELSE <<Head(cmd)>> \o ShellWord(Tail(cmd), quoted)

RECURSIVE EchoText(_, _)
\* what echo prints of its argument, before the newline
EchoText(word, sh) ==
  IF word = <<>> THEN <<>>
  ELSE IF sh = "dash" /\ Head(word) = "b" /\ Len(word) >= 2 /\ word[2] = "n"
    THEN <<"LF">> \o EchoText(Tail(Tail(word)), sh)
  ELSE IF sh = "dash" /\ Head(word) = "b" /\ Len(word) >= 2 /\ word[2] = "b"
    THEN <<"b">> \o EchoText(Tail(Tail(word)), sh)
  ELSE <<Head(word)>> \o EchoText(Tail(word), sh)

\* what the child reads up to EOF: the text, the padding and what follows
\* it; wired is false when no pipe is connected
Read(wired, text, pad, tail) ==
  [wired |-> wired, text |-> text, pad |-> pad, tail |-> tail]

\* echo '{escaped_stdin}' | filepath
EchoDeliver(p, sh) ==
  Read(TRUE, EchoText(ShellWord(<<"q">> \o Escape(p.text) \o <<"q">>, FALSE), sh),
       p.pad, <<"LF">>)
\* cat {temp_filepath} | filepath, the file holding what temp_file.write wrote
CatDeliver(p) == Read(TRUE, p.text, p.pad, <<>>)
\* create_subprocess_exec(*cmd) without stdin
NotWired == Read(FALSE, <<>>, 0, <<>>)

\* the branch of execute_file for a payload
PayloadPath(p) ==
  IF PayloadLen(p) = 0 THEN "exec"
  ELSE IF PayloadLen(p) > EchoLimit THEN "tempfile"
  ELSE "echo"
Deliver(p, sh) ==
  CASE PayloadPath(p) = "exec" -> NotWired
    [] PayloadPath(p) = "tempfile" -> CatDeliver(p)
    [] OTHER -> EchoDeliver(p, sh)

NoPipe == [payload |-> None, sh |-> "", path |-> "", read |-> None]

\* ------------------------------------------------------------------------
\* Several execute_file calls in flight at once on one uploaded file: the
\* locals of each call, and the temporary directory all of them write to
\* ------------------------------------------------------------------------
MaxInflight == 2
CallIds == 1..MaxInflight
ConcTimeout == 1
ConcStdin ==
  { NoStdin,
    StdinData(TRUE, 17, "object", "echo"),
    StdinData(TRUE, EchoLimit + 1, "object", "start") }

\* the locals of one call: stdin_data, temp_filepath, process, and what
\* the child of the call has read from its stdin
NoCall == [pc |-> "idle", stdin |-> NoStdin, temp |-> 0, proc |-> NoProc,
           read |-> None, outcome |-> None, raised |-> ""]

\* variant: every call writes its payload to one fixed path
TempNameFixed(temps) == 1

\* tempfile.NamedTemporaryFile(delete=False): a name no file of the
\* directory has
TempName(temps) ==
  CHOOSE n \in 1..(Cardinality(DOMAIN temps) + 1) :
    /\ n \notin DOMAIN temps
    /\ \A m \in 1..(n - 1) : m \in DOMAIN temps

\* temp_file.write(stdin_data): the file holds the payload of call c
WriteTemp(temps, name, c) ==
  [n \in DOMAIN temps \cup {name} |-> IF n = name THEN c ELSE temps[n]]

\* what reaches the stdin of the child of call c: the content of the file
\* named in its command line, the text of its own command line, or nothing
ChildStdin(call, c, temps) ==
  CASE call.proc.path = "tempfile" -> temps[call.temp]
    [] call.proc.path = "echo" -> c
    [] OTHER -> 0

\* the child answers the request it has read
ChildOutput(read) == <<JsonChunk([kind |-> "result", id |-> Some(read)])>>

NoInflight == [calls |-> [c \in CallIds |-> NoCall], temps |-> <<>>]

\* ------------------------------------------------------------------------
\* upload_mcp: the directory uploads/mcp with the two names the uploads of
\* one filename use, the files behind them, and the requests in progress
\* ------------------------------------------------------------------------
MaxUploads == 2
MaxChunks == 2
Uploaders == 1..MaxUploads
\* the body of upload u, in chunks of chunk_size bytes
ChunksOf(u) == (u % MaxChunks) + 1
Data(u) == [i \in 1..ChunksOf(u) |-> <<u, i>>]
\* the content of the file before the uploads
Old == << <<0, 1>> >>
\* bytes of a file nobody wrote: a write behind the end leaves a hole
Hole == <<0, 0>>

\* buffer.write(chunk); buffer.flush() at the offset of the descriptor
WriteAt(content, off, chunk) ==
  [i \in 1..(IF off + 1 > Len(content) THEN off + 1 ELSE Len(content)) |->
     IF i = off + 1 THEN chunk
     ELSE IF i <= Len(content) THEN content[i] ELSE Hole]

\* one request: its position, the file its descriptor is open on, the
\* offset of the descriptor, file_size, and the response
NoUpload == [pc |-> "start", fd |-> 0, off |-> 0, size |-> 0, response |-> None]
UploadOk(size) == [status |-> 200, size |-> size]
UploadFailed == [status |-> 500, size |-> 0]

\* inodes: the content of every file created so far; final and temp: the
\* file each name leads to, 0 when the name does not exist; busy: the
\* request that is running between two awaits; seen: what a reader of the
\* final name found; before: whether the final name existed at first;
\* oserr: whether the system refused a remove or a rename
DiskState(before, writable) ==
  [inodes |-> IF before THEN <<Old>> ELSE <<>>,
   final |-> IF before THEN 1 ELSE 0,
   temp |-> 0,
   up |-> [u \in Uploaders |-> NoUpload],
   busy |-> 0,
   seen |-> None,
   before |-> before,
   writable |-> writable,
   oserr |-> FALSE]
NoDisk == DiskState(TRUE, TRUE)

\* what lies behind the final name, None when the name does not exist
FinalContent(d) == IF d.final = 0 THEN None ELSE Some(d.inodes[d.final])

\* if os.path.exists(final_path): os.remove(final_path)
RemoveFinal(d) == 0
\* ------------------------------------------------------------------------
\* Initial state: no call in progress, a file in any state on disk
\* ------------------------------------------------------------------------
ExitCodes == {0, 1}

InitCall ==
  /\ pc = "idle"
  /\ calls = 0
  /\ entry = "file"
  /\ stdin = NoStdin
  /\ timeout = 1
  /\ method = ""
  /\ params = NoParams
  /\ id = None
  /\ request = None
  /\ proc = NoProc
  /\ elapsed = 0
  /\ waitEnd = "none"
  /\ outcome = None
  /\ raised = ""
  /\ envelope = None
  /\ tempFiles = 0

InitSide ==
  /\ cors = NoCors
  /\ pipe = NoPipe
  /\ inflight = NoInflight
  /\ disk = NoDisk

InitExec ==
  /\ InitCall
  /\ file \in FileStates
  /\ InitSide

\* the services called directly
Init ==
  /\ InitExec
  /\ stored = 1
  /\ route = NoRoute
  /\ sample = NoSample

\* a call starts when none is in progress
NewCall ==
  /\ pc = "idle"
  /\ calls < MaxCalls
  /\ calls' = calls + 1
  /\ UNCHANGED <<file, tempFiles, request, proc, elapsed, waitEnd, outcome,
                 raised, envelope>>

\* await ExecutionService.execute_file(filepath, stdin_data=s, timeout=t)
CallExecuteFile(s, t) ==
  /\ NewCall
  /\ entry' = "file"
  /\ stdin' = s
  /\ timeout' = t
  /\ method' = ""
  /\ params' = NoParams
  /\ id' = None
  /\ pc' = "access"
  /\ UNCHANGED webVars
  /\ UNCHANGED sideVars

\* await ExecutionService.execute_json_rpc(filepath, m, p, i, t)
CallExecuteJsonRpc(m, p, i, t) ==
  /\ NewCall
  /\ entry' = "rpc"
  /\ stdin' = NoStdin
  /\ timeout' = t
  /\ method' = m
  /\ params' = p
  /\ id' = i
  /\ pc' = "build"
  /\ UNCHANGED webVars
  /\ UNCHANGED sideVars

\* execute_json_rpc up to the call of execute_file: the timeout extension,
\* the request envelope and its serialization
RpcBuild ==
  /\ pc = "build"
  /\ IF Base64Check(params) = "TypeError"
       THEN /\ raised' = TypeError.type
            /\ pc' = "done"
            /\ UNCHANGED <<timeout, stdin, request, envelope>>
       ELSE IF ~params.serializable
         THEN /\ envelope' = Some(SerializeErrorEnvelope(TypeError.text, id))
              /\ timeout' = EffectiveTimeout(params, timeout)
              /\ pc' = "done"
              /\ UNCHANGED <<raised, stdin, request>>
         ELSE /\ timeout' = EffectiveTimeout(params, timeout)
              /\ request' = Some(Request(method, id))
              /\ stdin' = Serialize(method, params, id)
              /\ pc' = "access"
              /\ UNCHANGED <<raised, envelope>>
  /\ UNCHANGED <<calls, entry, file, method, params, id, proc, elapsed, waitEnd,
                 outcome, tempFiles>>
  /\ UNCHANGED webVars
  /\ UNCHANGED sideVars

\* variant: a failure is tried again
ReturnRetry(r) ==
  /\ outcome' = r.value
  /\ raised' = r.exc.type
  /\ pc' = IF r.value # None /\ ~r.value[1].success THEN "spawn"
          ELSE IF r.exc.type = "" /\ entry = "rpc" THEN "parse" ELSE "done"

\* execute_file ends: it returns its outcome, to the caller or to
\* execute_json_rpc, or an exception leaves it (and execute_json_rpc, which
\* awaits it outside any try)
Return(r) ==
  /\ outcome' = r.value
  /\ raised' = r.exc.type
  /\ pc' = IF r.exc.type = "" /\ entry = "rpc" THEN "parse" ELSE "done"

\* if not os.access(filepath, os.X_OK): os.chmod(filepath, 0o755)
EnsureExecutable ==
  /\ pc = "access"
  /\ IF Access(file)
       THEN /\ pc' = "spawn"
            /\ UNCHANGED <<file, outcome, raised>>
       ELSE IF ChmodError(file) # NoExc
         THEN /\ Return(ChmodExcept(ChmodError(file)))
              /\ UNCHANGED file
         ELSE /\ file' = [file EXCEPT !.exec = TRUE]
              /\ pc' = "spawn"
              /\ UNCHANGED <<outcome, raised>>
  /\ UNCHANGED <<calls, entry, stdin, timeout, method, params, id, request, proc,
                 elapsed, waitEnd, envelope, tempFiles>>
  /\ UNCHANGED webVars
  /\ UNCHANGED sideVars

\* the file is deleted by someone else between the check and the spawn
DeleteFile ==
  /\ pc = "spawn"
  /\ file.exists
  /\ file' = MissingFile
  /\ UNCHANGED <<pc, calls, entry, stdin, timeout, method, params, id, request,
                 proc, elapsed, waitEnd, outcome, raised, envelope, tempFiles>>
  /\ UNCHANGED webVars
  /\ UNCHANGED sideVars

\* create_subprocess_exec / create_subprocess_shell, after the temporary
\* file of the large branch was written; osFail: the system refuses a process
Spawn(osFail) ==
  /\ pc = "spawn"
  /\ tempFiles' = IF DeliveryPath(stdin) = "tempfile" THEN tempFiles + 1 ELSE tempFiles
  /\ IF osFail
       THEN /\ Return(OuterExcept(EAGAIN))
            /\ UNCHANGED <<proc, elapsed>>
       ELSE IF DeliveryPath(stdin) = "exec" /\ ~file.exists
         THEN /\ Return(OuterExcept(ENOENT))
              /\ UNCHANGED <<proc, elapsed>>
         ELSE /\ proc' = [NoProc EXCEPT !.state = "running",
                                        !.path = DeliveryPath(stdin),
                                        !.notFound = ~file.exists,
                                        !.spawns = proc.spawns + 1]
              /\ elapsed' = 0
              /\ pc' = "wait"
              /\ UNCHANGED <<outcome, raised>>
  /\ UNCHANGED <<calls, entry, file, stdin, timeout, method, params, id, request,
                 waitEnd, envelope>>
  /\ UNCHANGED webVars
  /\ UNCHANGED sideVars

\* the child writes to its stdout
ChildWriteStdout(c) ==
  /\ pc = "wait"
  /\ proc.state = "running"
  /\ ~proc.notFound
  /\ Len(proc.out) < MaxOut
  /\ proc' = [proc EXCEPT !.out = Append(@, c)]
  /\ UNCHANGED <<pc, calls, entry, file, stdin, timeout, method, params, id,
                 request, elapsed, waitEnd, outcome, raised, envelope, tempFiles>>
  /\ UNCHANGED webVars
  /\ UNCHANGED sideVars

\* the child writes to its stderr
ChildWriteStderr(c) ==
  /\ pc = "wait"
  /\ proc.state = "running"
  /\ ~proc.notFound
  /\ Len(proc.err) < MaxErr
  /\ proc' = [proc EXCEPT !.err = Append(@, c)]
  /\ UNCHANGED <<pc, calls, entry, file, stdin, timeout, method, params, id,
                 request, elapsed, waitEnd, outcome, raised, envelope, tempFiles>>
  /\ UNCHANGED webVars
  /\ UNCHANGED sideVars

\* the child exits; a shell that does not find the executable says so on
\* stderr and exits with 127
ChildExit(rc) ==
  /\ pc = "wait"
  /\ proc.state = "running"
  /\ IF proc.notFound
       THEN /\ rc = ShellNotFound
            /\ proc' = [proc EXCEPT !.state = "exited", !.rc = Some(rc),
                                    !.err = <<Garbage>>]
       ELSE /\ rc \in ExitCodes
            /\ proc' = [proc EXCEPT !.state = "exited", !.rc = Some(rc)]
  /\ UNCHANGED <<pc, calls, entry, file, stdin, timeout, method, params, id,
                 request, elapsed, waitEnd, outcome, raised, envelope, tempFiles>>
  /\ UNCHANGED webVars
  /\ UNCHANGED sideVars

\* time passes while wait_for waits
Tick ==
  /\ pc = "wait"
  /\ elapsed < timeout
  /\ elapsed' = IF elapsed + 1 <= MaxTick /\ elapsed + 1 < timeout
                  THEN elapsed + 1 ELSE timeout
  /\ UNCHANGED <<pc, calls, entry, file, stdin, timeout, method, params, id,
                 request, proc, waitEnd, outcome, raised, envelope, tempFiles>>
  /\ UNCHANGED webVars
  /\ UNCHANGED sideVars

\* wait_for(process.communicate(), timeout) returns stdout, stderr
Complete ==
  /\ pc = "wait"
  /\ proc.state = "exited"
  /\ waitEnd' = "completed"
  /\ Return(Ret(CompletedOutcome(proc.rc[1], proc.out, proc.err, elapsed)))
  /\ UNCHANGED <<calls, entry, file, stdin, timeout, method, params, id, request,
                 proc, elapsed, envelope, tempFiles>>
  /\ UNCHANGED webVars
  /\ UNCHANGED sideVars

\* process.kill() with except ProcessLookupError
Kill(p) ==
  IF p.state = "running"
    THEN [p EXCEPT !.state = "killed", !.kills = @ + 1]
    ELSE [p EXCEPT !.kills = @ + 1, !.killErrors = @ + 1]

\* what the branch does with asyncio.TimeoutError: the large branch has no
\* handler, the exception reaches the outer except Exception
TimeoutKills(path) == path # "tempfile"
TimeoutResult(path, s, t) ==
  CASE path = "tempfile" -> OuterExcept(TimeoutError)
    [] path = "echo" -> Ret(EchoTimeoutResult(s, t))
    [] OTHER -> Ret(TimeoutOutcome(t))

\* wait_for raises asyncio.TimeoutError
Timeout ==
  /\ pc = "wait"
  /\ elapsed = timeout
  /\ waitEnd' = "timeout"
  /\ proc' = IF TimeoutKills(proc.path) THEN Kill(proc) ELSE proc
  /\ Return(TimeoutResult(proc.path, stdin, timeout))
  /\ UNCHANGED <<calls, entry, file, stdin, timeout, method, params, id, request,
                 elapsed, envelope, tempFiles>>
  /\ UNCHANGED webVars
  /\ UNCHANGED sideVars

\* execute_json_rpc after execute_file has returned
RpcParse ==
  /\ pc = "parse"
  /\ envelope' = Some(ParseResponse(outcome[1], method, id))
  /\ pc' = "done"
  /\ UNCHANGED <<calls, entry, file, stdin, timeout, method, params, id, request,
                 proc, elapsed, waitEnd, outcome, raised, tempFiles>>
  /\ UNCHANGED webVars
  /\ UNCHANGED sideVars

\* the caller has its result: the locals of the call are gone, the disk is
\* what the call left
EndCall ==
  /\ pc = "done"
  /\ route.kind # "none" => route.response # None
  /\ pc' = "idle"
  /\ route' = NoRoute
  /\ UNCHANGED <<stored, sample>>
  /\ entry' = "file"
  /\ stdin' = NoStdin
  /\ timeout' = 1
  /\ method' = ""
  /\ params' = NoParams
  /\ id' = None
  /\ request' = None
  /\ proc' = NoProc
  /\ elapsed' = 0
  /\ waitEnd' = "none"
  /\ outcome' = None
  /\ raised' = ""
  /\ envelope' = None
  /\ UNCHANGED <<calls, file, tempFiles>>
  /\ UNCHANGED sideVars

\* ------------------------------------------------------------------------
\* The HTTP requests: POST /rpc/{file_type}/{filename} (execute_rpc) and
\* POST /execute/{file_type}?filename=...
\* ------------------------------------------------------------------------
ExecuteTimeout == 30

\* a request for execute_rpc arrives
CallRpcRoute(ft, name, body) ==
  /\ NewCall
  /\ entry' = "rpc"
  /\ stdin' = NoStdin
  /\ timeout' = RouteTimeout
  /\ method' = ""
  /\ params' = NoParams
  /\ id' = None
  /\ route' = [NoRoute EXCEPT !.kind = "rpc", !.file_type = ft,
                              !.filename = name, !.body = body]
  /\ pc' = "route"
  /\ UNCHANGED <<stored, sample>>
  /\ UNCHANGED sideVars

\* execute_rpc up to the call of execute_json_rpc: the lookup of the file,
\* the chmod of an mcp file, the checks of the request object
RpcRoute ==
  /\ pc = "route"
  /\ route.kind = "rpc"
  /\ LET answer == RpcChecks(route.file_type, route.filename, route.body, file, stored)
         path == ResolvePath(route.file_type, route.filename, file, stored)
     IN /\ file' = RpcChmod(route.file_type, route.filename, file, stored)
        /\ IF answer # None
             THEN /\ route' = [route EXCEPT !.path = path, !.response = answer]
                  /\ pc' = "done"
                  /\ UNCHANGED <<method, params, id>>
             ELSE /\ route' = [route EXCEPT !.path = path]
                  /\ method' = route.body.method
                  /\ params' = route.body.params
                  /\ id' = route.body.id
                  /\ pc' = "build"
  /\ UNCHANGED <<calls, entry, stdin, timeout, request, proc, elapsed, waitEnd,
                 outcome, raised, envelope, tempFiles, stored, sample>>
  /\ UNCHANGED sideVars

\* the file is deleted by someone else between the lookup of execute_rpc and
\* the call of execute_json_rpc
RouteDeleteFile ==
  /\ pc = "build"
  /\ route.kind = "rpc"
  /\ file.exists
  /\ file' = MissingFile
  /\ UNCHANGED <<pc, calls, entry, stdin, timeout, method, params, id, request,
                 proc, elapsed, waitEnd, outcome, raised, envelope, tempFiles,
                 stored, route, sample>>
  /\ UNCHANGED sideVars

\* execute_rpc after execute_json_rpc: the envelope is the body of a 200, an
\* exception is answered by the except Exception of the route
RpcRespond ==
  /\ pc = "done"
  /\ route.kind = "rpc"
  /\ route.response = None
  /\ route' = [route EXCEPT !.response =
                 Some(IF raised # "" THEN RouteExceptResponse(raised, route.body)
                                     ELSE ResultResponse(envelope[1]))]
  /\ UNCHANGED <<pc, calls, entry, file, stdin, timeout, method, params, id,
                 request, proc, elapsed, waitEnd, outcome, raised, envelope,
                 tempFiles, stored, sample>>
  /\ UNCHANGED sideVars

\* a request for the execute endpoint arrives
CallExecuteRoute(ft, name) ==
  /\ NewCall
  /\ entry' = "file"
  /\ stdin' = NoStdin
  /\ timeout' = ExecuteTimeout
  /\ method' = ""
  /\ params' = NoParams
  /\ id' = None
  /\ route' = [NoRoute EXCEPT !.kind = "execute", !.file_type = ft,
                              !.filename = name]
  /\ pc' = "route"
  /\ UNCHANGED <<stored, sample>>
  /\ UNCHANGED sideVars

\* the execute endpoint up to the run of the file
ExecuteRoute ==
  /\ pc = "route"
  /\ route.kind = "execute"
  /\ LET status == ExecuteChecks(route.filename, file, stored)
     IN IF status # 0
          THEN /\ route' = [route EXCEPT !.response =
                              Some(DetailResponse(status, ExecuteDetail(status)))]
               /\ pc' = "done"
          ELSE /\ route' = [route EXCEPT !.path = Some(route.filename)]
               /\ pc' = "access"
  /\ UNCHANGED <<calls, entry, file, stdin, timeout, method, params, id, request,
                 proc, elapsed, waitEnd, outcome, raised, envelope, tempFiles,
                 stored, sample>>
  /\ UNCHANGED sideVars

\* the execute endpoint after the run
ExecuteRespond ==
  /\ pc = "done"
  /\ route.kind = "execute"
  /\ route.response = None
  /\ outcome # None
  /\ route' = [route EXCEPT !.response = Some(ExecuteResult(outcome[1]))]
  /\ UNCHANGED <<pc, calls, entry, file, stdin, timeout, method, params, id,
                 request, proc, elapsed, waitEnd, outcome, raised, envelope,
                 tempFiles, stored, sample>>
  /\ UNCHANGED sideVars

\* ------------------------------------------------------------------------
\* The sample executable on one request
\* ------------------------------------------------------------------------
\* python sample_rpc.py with the request on its standard input
SampleRun ==
  /\ sample.req # None
  /\ sample.resp = None
  /\ sample' = [sample EXCEPT !.resp = Some(main(sample.req[1]))]
  /\ UNCHANGED <<pc, calls, entry, file, stdin, timeout, method, params, id,
                 request, proc, elapsed, waitEnd, outcome, raised, envelope,
                 tempFiles, stored, route>>
  /\ UNCHANGED sideVars

\* execute_json_rpc(path of the sample executable, m, p, i)
SampleRoundTrip(m, p, i) ==
  /\ sample.resp = None
  /\ Base64Check(p) # "TypeError"
  /\ p.serializable
  /\ sample' = [req |-> Some(ReadRequest(Request(m, i), p)),
                resp |-> Some(main(ReadRequest(Request(m, i), p))),
                envelope |-> Some(RoundTrip(m, p, i))]
  /\ UNCHANGED <<pc, calls, entry, file, stdin, timeout, method, params, id,
                 request, proc, elapsed, waitEnd, outcome, raised, envelope,
                 tempFiles, stored, route>>
  /\ UNCHANGED sideVars

Next ==
  \/ \E s \in StdinSamples, t \in Timeouts : CallExecuteFile(s, t)
  \/ \E m \in Methods, p \in ParamsSamples, i \in Ids, t \in Timeouts :
       CallExecuteJsonRpc(m, p, i, t)
  \/ RpcBuild
  \/ EnsureExecutable
  \/ DeleteFile
  \/ \E osFail \in BOOLEAN : Spawn(osFail)
  \/ \E c \in OutChunks : ChildWriteStdout(c)
  \/ \E c \in ErrChunks : ChildWriteStderr(c)
  \/ \E rc \in ExitCodes \cup {ShellNotFound} : ChildExit(rc)
  \/ Tick
  \/ Complete
  \/ Timeout
  \/ RpcParse
  \/ EndCall

Spec == Init /\ [][Next]_vars

\* the HTTP layer in front of the services
\* the files of the upload directories: also an executable file whose mode
\* the server may not change
RouteFileStates == FileStates \cup {FileState(TRUE, TRUE, FALSE)}

InitRoute ==
  /\ InitCall
  /\ file \in RouteFileStates
  /\ InitSide
  /\ stored \in StoredNames
  /\ route = NoRoute
  /\ sample = NoSample

NextRoute ==
  \/ \E ft \in FileTypes, name \in FileNames, body \in Bodies :
       CallRpcRoute(ft, name, body)
  \/ \E ft \in FileTypes, name \in FileNames : CallExecuteRoute(ft, name)
  \/ RpcRoute
  \/ RouteDeleteFile
  \/ RpcRespond
  \/ ExecuteRoute
  \/ ExecuteRespond
  \/ RpcBuild
  \/ EnsureExecutable
  \/ DeleteFile
  \/ \E osFail \in BOOLEAN : Spawn(osFail)
  \/ \E c \in OutChunks : ChildWriteStdout(c)
  \/ \E c \in ErrChunks : ChildWriteStderr(c)
  \/ \E rc \in ExitCodes \cup {ShellNotFound} : ChildExit(rc)
  \/ Tick
  \/ Complete
  \/ Timeout
  \/ RpcParse
  \/ EndCall

SpecRoute == InitRoute /\ [][NextRoute]_vars

\* the sample executable on every request object
InitSample ==
  /\ InitExec
  /\ stored = 1
  /\ route = NoRoute
  /\ sample \in {[NoSample EXCEPT !.req = Some(r)] : r \in SampleRequests}

NextSample ==
  \/ SampleRun
  \/ \E m \in Methods, p \in ParamsSamples, i \in Ids : SampleRoundTrip(m, p, i)

SpecSample == InitSample /\ [][NextSample]_vars

\* ------------------------------------------------------------------------
\* The middleware on one request
\* ------------------------------------------------------------------------
\* the side state of the other specifications stays as it is
CallsIdle ==
  UNCHANGED <<pc, calls, entry, file, stdin, timeout, method, params, id,
              request, proc, elapsed, waitEnd, outcome, raised, envelope,
              tempFiles, stored, route, sample>>

\* an OPTIONS request is answered by the middleware itself
CorsPreflight ==
  /\ cors.req # None
  /\ cors.response = None
  /\ cors.req[1].method = "OPTIONS"
  /\ cors' = [cors EXCEPT !.response = Some(combined_middleware(cors.req[1], 0))]
  /\ CallsIdle
  /\ UNCHANGED <<pipe, inflight, disk>>

\* response = await call_next(request)
CorsCallNext(status) ==
  /\ cors.req # None
  /\ cors.routed = None
  /\ cors.req[1].method # "OPTIONS"
  /\ cors' = [cors EXCEPT !.routed = Some(status)]
  /\ CallsIdle
  /\ UNCHANGED <<pipe, inflight, disk>>

\* the middleware returns the response with its headers
CorsRespond ==
  /\ cors.routed # None
  /\ cors.response = None
  /\ cors' = [cors EXCEPT !.response =
                Some(combined_middleware(cors.req[1], cors.routed[1]))]
  /\ CallsIdle
  /\ UNCHANGED <<pipe, inflight, disk>>

InitCors ==
  /\ InitCall
  /\ file = FileState(TRUE, TRUE, TRUE)
  /\ stored = 1
  /\ route = NoRoute
  /\ sample = NoSample
  /\ cors \in {[NoCors EXCEPT !.req = Some([method |-> m, origin |-> o])] :
                 m \in HttpMethods, o \in Origins}
  /\ pipe = NoPipe
  /\ inflight = NoInflight
  /\ disk = NoDisk

NextCors ==
  \/ CorsPreflight
  \/ \E status \in HandlerStatuses : CorsCallNext(status)
  \/ CorsRespond

SpecCors == InitCors /\ [][NextCors]_vars

\* ------------------------------------------------------------------------
\* One payload handed to execute_file and read by the child
\* ------------------------------------------------------------------------
\* the child reads its stdin up to EOF
PipeDeliver ==
  /\ pipe.payload # None
  /\ pipe.read = None
  /\ pipe' = [pipe EXCEPT !.path = PayloadPath(pipe.payload[1]),
                          !.read = Some(Deliver(pipe.payload[1], pipe.sh))]
  /\ CallsIdle
  /\ UNCHANGED <<cors, inflight, disk>>

InitPipe ==
  /\ InitCall
  /\ file = FileState(TRUE, TRUE, TRUE)
  /\ stored = 1
  /\ route = NoRoute
  /\ sample = NoSample
  /\ cors = NoCors
  /\ pipe \in {[NoPipe EXCEPT !.payload = Some(Payload(t, n)), !.sh = sh] :
                 t \in Texts, n \in Pads, sh \in Shells}
  /\ inflight = NoInflight
  /\ disk = NoDisk

NextPipe == PipeDeliver

SpecPipe == InitPipe /\ [][NextPipe]_vars
\* ------------------------------------------------------------------------
\* Concurrent calls of execute_file
\* ------------------------------------------------------------------------
\* everything but the uploaded file and the calls in flight
ConcIdle ==
  /\ UNCHANGED <<pc, calls, entry, stdin, timeout, method, params, id,
                 request, proc, elapsed, waitEnd, outcome, raised, envelope,
                 tempFiles, stored, route, sample>>
  /\ UNCHANGED <<cors, pipe, disk>>

\* the call ends with a result or an exception
ConcReturn(call, r) ==
  [call EXCEPT !.pc = "done", !.outcome = r.value, !.raised = r.exc.type]

\* execute_file(filepath, stdin_data=s) is entered
ConcCall(c, s) ==
  /\ inflight.calls[c].pc = "idle"
  /\ inflight' = [inflight EXCEPT !.calls[c] =
                    [NoCall EXCEPT !.pc = "access", !.stdin = s]]
  /\ UNCHANGED file
  /\ ConcIdle

\* if not os.access(filepath, os.X_OK): os.chmod(filepath, 0o755)
ConcEnsureExecutable(c) ==
  /\ inflight.calls[c].pc = "access"
  /\ IF Access(file)
       THEN /\ inflight' = [inflight EXCEPT !.calls[c].pc = "spawn"]
            /\ UNCHANGED file
       ELSE IF ChmodError(file) # NoExc
         THEN /\ inflight' = [inflight EXCEPT !.calls[c] =
                                ConcReturn(@, ChmodExcept(ChmodError(file)))]
              /\ UNCHANGED file
         ELSE /\ file' = [file EXCEPT !.exec = TRUE]
              /\ inflight' = [inflight EXCEPT !.calls[c].pc = "spawn"]
  /\ ConcIdle

\* the temporary file of the large branch is written, then
\* create_subprocess_exec / create_subprocess_shell
ConcSpawn(c, osFail) ==
  LET call == inflight.calls[c]
      path == DeliveryPath(call.stdin)
      name == IF path = "tempfile" THEN TempName(inflight.temps) ELSE 0
      temps == IF path = "tempfile" THEN WriteTemp(inflight.temps, name, c)
                                    ELSE inflight.temps
  IN /\ call.pc = "spawn"
     /\ inflight' =
          [calls |-> [inflight.calls EXCEPT ![c] =
             IF osFail
               THEN ConcReturn([call EXCEPT !.temp = name], OuterExcept(EAGAIN))
               ELSE [call EXCEPT !.pc = "wait", !.temp = name,
                                 !.proc = [NoProc EXCEPT !.state = "running",
                                                         !.path = path,
                                                         !.spawns = call.proc.spawns + 1]]],
           temps |-> temps]
     /\ UNCHANGED file
     /\ ConcIdle

\* the child reads its stdin up to EOF
ConcChildRead(c) ==
  LET call == inflight.calls[c]
  IN /\ call.pc = "wait"
     /\ call.proc.state = "running"
     /\ call.read = None
     /\ inflight' = [inflight EXCEPT !.calls[c].read =
                       Some(ChildStdin(call, c, inflight.temps))]
     /\ UNCHANGED file
     /\ ConcIdle

\* the child prints its answer and exits
ConcChildExit(c, rc) ==
  LET call == inflight.calls[c]
  IN /\ call.pc = "wait"
     /\ call.proc.state = "running"
     /\ call.read # None
     /\ inflight' = [inflight EXCEPT !.calls[c].proc =
                       [@ EXCEPT !.state = "exited", !.rc = Some(rc),
                                 !.out = ChildOutput(call.read[1])]]
     /\ UNCHANGED file
     /\ ConcIdle

\* communicate() returns
ConcComplete(c) ==
  LET call == inflight.calls[c]
  IN /\ call.pc = "wait"
     /\ call.proc.state = "exited"
     /\ inflight' = [inflight EXCEPT !.calls[c] =
                       ConcReturn(@, Ret(CompletedOutcome(call.proc.rc[1],
                                                          call.proc.out,
                                                          call.proc.err, 0)))]
     /\ UNCHANGED file
     /\ ConcIdle

\* wait_for raises asyncio.TimeoutError
ConcTimeoutFires(c) ==
  LET call == inflight.calls[c]
      killed == IF TimeoutKills(call.proc.path) THEN Kill(call.proc) ELSE call.proc
  IN /\ call.pc = "wait"
     /\ call.proc.state = "running"
     /\ inflight' = [inflight EXCEPT !.calls[c] =
                       ConcReturn([call EXCEPT !.proc = killed],
                                  TimeoutResult(call.proc.path, call.stdin,
                                                ConcTimeout))]
     /\ UNCHANGED file
     /\ ConcIdle

InitConc ==
  /\ InitCall
  /\ file \in FileStates
  /\ stored = 1
  /\ route = NoRoute
  /\ sample = NoSample
  /\ cors = NoCors
  /\ pipe = NoPipe
  /\ inflight = NoInflight
  /\ disk = NoDisk

NextConc ==
  \E c \in CallIds :
    \/ \E s \in ConcStdin : ConcCall(c, s)
    \/ ConcEnsureExecutable(c)
    \/ \E osFail \in BOOLEAN : ConcSpawn(c, osFail)
    \/ ConcChildRead(c)
    \/ \E rc \in {0, 1} : ConcChildExit(c, rc)
    \/ ConcComplete(c)
    \/ ConcTimeoutFires(c)

SpecConc == InitConc /\ [][NextConc]_vars
\* ------------------------------------------------------------------------
\* upload_mcp requests for one filename, and a reader of the final name
\* ------------------------------------------------------------------------
DiskIdle ==
  /\ CallsIdle
  /\ UNCHANGED <<cors, pipe, inflight>>

\* the event loop runs one request at a time between two awaits
LoopFree(u) == disk.busy \in {0, u}

\* os.access(dirname, os.W_OK) fails: 500 from the outer handler
UploadRefused(u) ==
  /\ disk.up[u].pc = "start"
  /\ LoopFree(u)
  /\ ~disk.writable
  /\ disk' = [disk EXCEPT !.up[u] = [@ EXCEPT !.pc = "done",
                                               !.response = Some(UploadFailed)]]
  /\ DiskIdle

\* open(file_path, "wb"), up to the first await file.read(chunk_size)
UploadOpen(u) ==
  LET new == Len(disk.inodes) + 1
  IN /\ disk.up[u].pc = "start"
     /\ LoopFree(u)
     /\ disk.writable
     /\ disk' = IF disk.temp = 0
                  THEN [disk EXCEPT !.inodes = Append(@, <<>>),
                                    !.temp = new,
                                    !.up[u] = [@ EXCEPT !.pc = "read", !.fd = new]]
                  ELSE [disk EXCEPT !.inodes[disk.temp] = <<>>,
                                    !.up[u] = [@ EXCEPT !.pc = "read",
                                                         !.fd = disk.temp]]
     /\ DiskIdle

\* file.read returns a chunk: file_size += len(chunk); buffer.write(chunk);
\* buffer.flush(); then the next await
UploadWrite(u) ==
  LET up == disk.up[u]
  IN /\ up.pc = "read"
     /\ LoopFree(u)
     /\ up.size < Len(Data(u))
     /\ disk' = [disk EXCEPT
                   !.inodes[up.fd] = WriteAt(@, up.off, Data(u)[up.size + 1]),
                   !.up[u] = [@ EXCEPT !.off = @ + 1, !.size = @ + 1]]
     /\ DiskIdle

\* except Exception as rename_error: the temporary name is removed when it
\* exists, and 500 is raised
RenameError(d, u) ==
  [d EXCEPT !.temp = 0, !.busy = 0, !.oserr = TRUE,
            !.up[u] = [@ EXCEPT !.pc = "done", !.response = Some(UploadFailed)]]

\* file.read returns b"": the file is closed, then
\* if os.path.exists(final_path): os.remove(final_path)
UploadRemove(u, fail) ==
  LET up == disk.up[u]
  IN /\ up.pc = "read"
     /\ LoopFree(u)
     /\ up.size = Len(Data(u))
     /\ fail => disk.final # 0
     /\ disk' = IF fail
                  THEN RenameError(disk, u)
                  ELSE [disk EXCEPT !.final = RemoveFinal(disk),
                                    !.busy = u,
                                    !.up[u].pc = "rename"]
     /\ DiskIdle

\* os.rename(file_path, final_path), and the response
UploadRename(u, fail) ==
  LET up == disk.up[u]
  IN /\ up.pc = "rename"
     /\ disk' = IF fail
                  THEN RenameError(disk, u)
                  ELSE IF disk.temp = 0
                    THEN [RenameError(disk, u) EXCEPT !.oserr = disk.oserr]
                    ELSE [disk EXCEPT !.final = disk.temp,
                                      !.temp = 0,
                                      !.busy = 0,
                                      !.up[u] = [@ EXCEPT !.pc = "done",
                                                   !.response = Some(UploadOk(up.size))]]
     /\ DiskIdle

\* execute_rpc resolves the final name, or the shell of a child opens it
ReaderLooks ==
  /\ disk.seen = None
  /\ \E u \in Uploaders : disk.up[u].pc # "start"
  /\ disk' = [disk EXCEPT !.seen = Some(FinalContent(disk))]
  /\ DiskIdle

InitUpload ==
  /\ InitCall
  /\ file = FileState(TRUE, TRUE, TRUE)
  /\ stored = 1
  /\ route = NoRoute
  /\ sample = NoSample
  /\ cors = NoCors
  /\ pipe = NoPipe
  /\ inflight = NoInflight
  /\ disk \in {DiskState(b, w) : b \in BOOLEAN, w \in BOOLEAN}

NextUpload ==
  \/ \E u \in Uploaders :
       \/ UploadRefused(u)
       \/ UploadOpen(u)
       \/ UploadWrite(u)
       \/ \E fail \in BOOLEAN : UploadRemove(u, fail)
       \/ \E fail \in BOOLEAN : UploadRename(u, fail)
  \/ ReaderLooks

SpecUpload == InitUpload /\ [][NextUpload]_vars

\* ------------------------------------------------------------------------
\* Properties
\* ------------------------------------------------------------------------
\* wait_for returned with the exit status 0 of the child
ExitedZeroInTime == waitEnd = "completed" /\ proc.rc = Some(0)
\* a non-empty stdin payload that json.loads reads as an object with
\* method "start"
StartRequest == Truthy(stdin) /\ stdin.json = "object" /\ stdin.method = "start"
\* the timeout fired in the echo branch on a start request
StartException == waitEnd = "timeout" /\ proc.path = "echo" /\ StartRequest
IsTimeoutMessage(m) ==
  m.fmt \in {"Execution timeout (>{n} seconds)", "Service start successfully"}
\* the timeout fired while the child had not terminated
TimedOutRunning == outcome # None /\ waitEnd = "timeout" /\ proc.state # "exited"
\* execute_json_rpc has ended
RpcDone == pc = "done" /\ entry = "rpc"

\* C1 as stated: success is true iff the child exited with code 0 within the
\* timeout; a successful outcome has exit_code 0 and no timeout message.
C1_Original ==
  outcome # None =>
    /\ outcome[1].success <=> ExitedZeroInTime
    /\ outcome[1].success =>
         outcome[1].exit_code = Some(0) /\ ~IsTimeoutMessage(outcome[1].message)

\* C1 amended: success is true iff the child exited with code 0 within the
\* timeout or the timeout fired in the echo branch on a start request; a
\* successful outcome has exit_code 0 and message "Execution successful", or
\* in the start case no exit_code and message "Service start successfully".
C1_SuccessIffExitZeroOrStart ==
  outcome # None =>
    /\ outcome[1].success <=> (ExitedZeroInTime \/ StartException)
    /\ (outcome[1].success /\ ~StartException) =>
         /\ outcome[1].exit_code = Some(0)
         /\ outcome[1].message = Msg("Execution successful")
    /\ (outcome[1].success /\ StartException) =>
         /\ outcome[1].exit_code = None
         /\ outcome[1].message = Msg("Service start successfully")
C1_Witness ==
  outcome # None /\ outcome[1].success /\ StartException /\ proc.state = "killed"

\* C2: when the timeout expires on a child that has not terminated, on every
\* delivery path the outcome has no exit_code, execution_time equal to the
\* timeout and, unless the request is a start request, success=false with
\* the message "Execution timeout (>N seconds)".
C2_TimeoutOutcome ==
  TimedOutRunning =>
    /\ outcome[1].exit_code = None
    /\ outcome[1].execution_time = Some(timeout)
    /\ ~StartRequest =>
         /\ ~outcome[1].success
         /\ outcome[1].message = MsgN("Execution timeout (>{n} seconds)", timeout)

\* C3: for a start request of any length a timeout is reported as success
\* with message "Service start successfully", and execute_json_rpc with
\* method start then returns the synthesized success envelope.
C3_StartTimeoutIsSuccess ==
  /\ (outcome # None /\ waitEnd = "timeout" /\ StartRequest) =>
       /\ outcome[1].success
       /\ outcome[1].message = Msg("Service start successfully")
  /\ (RpcDone /\ TimedOutRunning /\ method = "start") =>
       /\ envelope # None
       /\ envelope[1].kind = "result"
       /\ envelope[1].result =
            [status |-> "success", message |-> "Service started successfully"]

C5_NoExceptionEscapes ==
  (pc \in {"parse", "done"} /\ (entry = "file" \/ request # None)) =>
    raised = "" /\ outcome # None
C5_Witness ==
  /\ pc = "done" /\ entry = "file" /\ waitEnd = "timeout"
  /\ proc.path = "tempfile" /\ outcome # None /\ raised = ""

\* C6: execute_file on a path that is no existing file returns a failure
\* whose message contains "File does not exist", unlike the message of a
\* permission failure, and spawns no process.
MentionsNotFound(m) == m.fmt \in {"File does not exist", "File does not exist: {e}"}
C6_NotFoundIsDistinct ==
  [][(pc = "access" /\ ~file.exists) =>
       /\ outcome' # None
       /\ ~outcome'[1].success
       /\ MentionsNotFound(outcome'[1].message)
       /\ proc'.spawns = 0]_vars

\* C7: execute_json_rpc ends by returning one envelope and raises nothing,
\* whatever params is.
C7_RpcNeverRaises == RpcDone => (raised = "" /\ envelope # None)

\* C8: the envelope execute_json_rpc returns has the id of the request
\* envelope that was serialized for the child.
C8_ResponseIdIsRequestId ==
  (RpcDone /\ envelope # None /\ request # None) =>
    envelope[1].id = request[1].id

\* C9: a runner outcome with success=false gives the error envelope -32603
\* with the outcome's message, data {stderr, exit_code} and the caller's id;
\* stdout is not parsed.
C9_FailureEnvelope ==
  (RpcDone /\ outcome # None /\ ~outcome[1].success) =>
    /\ envelope # None
    /\ envelope[1].jsonrpc = "2.0"
    /\ envelope[1].kind = "error"
    /\ envelope[1].code = 0 - 32603
    /\ envelope[1].message = outcome[1].message
    /\ envelope[1].data.present
    /\ ~envelope[1].data.has_stdout
    /\ envelope[1].data.stderr = outcome[1].stderr
    /\ envelope[1].data.exit_code = outcome[1].exit_code
    /\ envelope[1].id = id
C9_Witness ==
  /\ RpcDone /\ outcome # None /\ ~outcome[1].success /\ envelope # None
  /\ outcome[1].stdout # None /\ JsonLoads(outcome[1].stdout[1]) # None

\* the runner succeeded with a stdout that is not valid JSON
InvalidJsonCase ==
  /\ RpcDone /\ outcome # None /\ outcome[1].success
  /\ outcome[1].stdout # None /\ JsonLoads(outcome[1].stdout[1]) = None
InvalidJsonError ==
  /\ envelope # None
  /\ envelope[1].kind = "error"
  /\ envelope[1].code = 0 - 32603
  /\ envelope[1].message = Msg("Response is not a valid JSON-RPC response")
  /\ envelope[1].data.has_stdout
  /\ envelope[1].data.parse_error
  /\ envelope[1].data.stderr = outcome[1].stderr
  /\ envelope[1].data.exit_code = outcome[1].exit_code
  /\ envelope[1].id = id

\* C10 as stated: data.stdout is the raw stdout the child produced.
C10_Original ==
  InvalidJsonCase => (InvalidJsonError /\ envelope[1].data.stdout = Some(proc.out))

\* C10 amended: data.stdout is the child's stdout decoded as UTF-8 with every
\* invalid byte sequence replaced by U+FFFD (the raw stdout when it is valid
\* UTF-8).
C10_StdoutIsDecodedOutput ==
  InvalidJsonCase =>
    /\ InvalidJsonError
    /\ envelope[1].data.stdout # None
    /\ Len(envelope[1].data.stdout[1]) = Len(proc.out)
    /\ \A k \in 1..Len(proc.out) :
         envelope[1].data.stdout[1][k] =
           IF proc.out[k] = BadUtf8 THEN Replacement ELSE proc.out[k]
C10_Witness ==
  InvalidJsonCase /\ envelope # None /\ BadUtf8 \in {proc.out[k] : k \in 1..Len(proc.out)}

\* the runner succeeded and stdout is empty
EmptyOutputCase ==
  RpcDone /\ outcome # None /\ outcome[1].success /\ outcome[1].stdout = None

\* C11: when the runner outcome is success and stdout is empty, the envelope
\* is the synthesized success {status "success", "Service started
\* successfully"} with the id iff method is "start"; for any other method it
\* is the error -32603 "Execution successful but no output" with data
\* {stderr, exit_code}.
C11_EmptyOutput ==
  EmptyOutputCase =>
    /\ envelope # None
    /\ envelope[1].jsonrpc = "2.0"
    /\ envelope[1].id = id
    /\ (envelope[1].kind = "result") <=> (method = "start")
    /\ method = "start" =>
         envelope[1].result =
           [status |-> "success", message |-> "Service started successfully"]
    /\ method # "start" =>
         /\ envelope[1].kind = "error"
         /\ envelope[1].code = 0 - 32603
         /\ envelope[1].message = Msg("Execution successful but no output")
         /\ envelope[1].data.present
         /\ ~envelope[1].data.has_stdout
         /\ envelope[1].data.stderr = outcome[1].stderr
         /\ envelope[1].data.exit_code = outcome[1].exit_code
C11_Witness ==
  /\ EmptyOutputCase /\ method # "start" /\ envelope # None
  /\ outcome[1].stderr # None /\ outcome[1].exit_code = Some(0)

\* the params value is a mapping whose base64_data has more than 1,000,000
\* characters
LargeBase64(p) == p.name = "base64" /\ p.b64len > 1000000

\* C12: the timeout execute_json_rpc passes to the runner is max(requested,
\* 60) when params has a base64_data longer than 1,000,000 and the requested
\* timeout otherwise; a requested timeout above 60 is never lowered.
C12_EffectiveTimeout ==
  [][(pc = "build" /\ pc' = "access") =>
       /\ LargeBase64(params) =>
            timeout' = IF timeout >= 60 THEN timeout ELSE 60
       /\ ~LargeBase64(params) => timeout' = timeout
       /\ timeout' >= timeout]_vars
C12_Witness ==
  /\ entry = "rpc" /\ pc = "wait" /\ params.b64len = 1000001
  /\ timeout = 60 /\ proc.spawns = 1

\* json.dumps(request) was reached and raised
SerializeFailed ==
  RpcDone /\ Base64Check(params) # "TypeError" /\ ~params.serializable

\* C13: when serializing the request envelope fails, execute_json_rpc returns
\* the error envelope -32700 with a message describing the failure and the
\* caller's id, and no child process is spawned.
C13_SerializeFailure ==
  SerializeFailed =>
    /\ raised = ""
    /\ envelope # None
    /\ envelope[1].jsonrpc = "2.0"
    /\ envelope[1].kind = "error"
    /\ envelope[1].code = 0 - 32700
    /\ envelope[1].message.fmt = "Failed to serialize request: {e}"
    /\ envelope[1].message.e # ""
    /\ envelope[1].id = id
    /\ proc.spawns = 0
    /\ outcome = None
C13_Witness ==
  SerializeFailed /\ envelope # None /\ id = Some(7) /\ proc = NoProc

\* execute_rpc has answered
RpcAnswered == route.kind = "rpc" /\ route.response # None
\* execute_rpc found no file under the names it looks up
MissingAtLookup == RpcAnswered /\ route.path = None
\* execute_rpc found the file, and execute_file ran on a path that is no
\* file any more
MissingAtRun ==
  RpcAnswered /\ route.path # None /\ outcome # None /\ ~file.exists /\ proc.spawns = 0

\* C14: when the target executable is missing the RPC call answers with the
\* error envelope -32602 and the request's id, both when the file is missing
\* at the lookup of the route and when execute_json_rpc runs on a path that
\* does not exist.
C14_MissingIsInvalidParams ==
  (MissingAtLookup \/ MissingAtRun) =>
    /\ route.response[1].content.jsonrpc = "2.0"
    /\ route.response[1].content.kind = "error"
    /\ route.response[1].content.code = 0 - 32602
    /\ route.response[1].content.id = BodyId(route.body)

\* execute_rpc has called execute_json_rpc
ReachedBridge == RpcAnswered /\ method # ""

\* C15: whenever execute_rpc reaches execute_json_rpc (file found, request
\* object and method present) the HTTP response has status 200 and its body
\* is the envelope execute_json_rpc returned.
C15_BridgeAnswerIs200 ==
  ReachedBridge =>
    /\ route.response[1].status = 200
    /\ envelope # None
    /\ route.response[1].content = envelope[1]

\* C16: a request to the RPC endpoint for an existing file whose body has no
\* method is answered with the error envelope -32600 carrying the request's
\* id (null when the request object is missing), and no process is spawned.
C16_MissingMethod ==
  (RpcAnswered /\ file.exists /\ route.body.method = "") =>
    /\ route.response[1].content.kind = "error"
    /\ route.response[1].content.code = 0 - 32600
    /\ route.response[1].content.id = BodyId(route.body)
    /\ proc.spawns = 0

\* the child printed one JSON-RPC result, exited with 0 and was waited for
ChildAnsweredResult ==
  /\ waitEnd = "completed" /\ proc.rc = Some(0)
  /\ Len(proc.out) = 1 /\ proc.out[1].t = "json" /\ proc.out[1].doc.kind = "result"

\* C17: a file stored under the name F, with no ".bin" added, is found by
\* POST /rpc/{file_type}/F; the route runs it and answers 200 with a jsonrpc
\* "2.0" body that carries the child's result and id.
C17_StoredNameResolves ==
  (RpcAnswered /\ file.exists /\ stored = 0 /\ route.filename = stored) =>
    /\ route.path = Some(stored)
    /\ ChildAnsweredResult =>
         /\ route.response[1].status = 200
         /\ route.response[1].content.jsonrpc = "2.0"
         /\ route.response[1].content.kind = "result"
         /\ route.response[1].content.id = proc.out[1].doc.id

\* C18: every envelope execute_json_rpc returns has jsonrpc "2.0" and
\* exactly one of result and error, also when it is the parsed stdout of the
\* child.
C18_WellFormedEnvelope ==
  (RpcDone /\ envelope # None) =>
    /\ envelope[1].jsonrpc = "2.0"
    /\ envelope[1].kind \in {"result", "error"}

\* C19: for every request object the response of the sample executable has
\* the id of the request and exactly one of result and error, and the
\* envelope execute_json_rpc returns for the sample executable has the id of
\* the serialized request.
C19_RoundTripId ==
  sample.resp # None =>
    /\ sample.resp[1].id = sample.req[1].id
    /\ sample.resp[1].has_result # sample.resp[1].has_error
    /\ sample.envelope # None => sample.envelope[1].id = sample.req[1].id

\* the execute endpoint has answered
ExecuteAnswered == route.kind = "execute" /\ route.response # None

C21_AllowOriginStar ==
  (cors.response # None /\ cors.req[1].origin # None) =>
    /\ cors.response[1].allow_origin = "*"
    /\ cors.req[1].method = "OPTIONS" =>
         cors.response[1].status = 200 /\ ~cors.response[1].routed

\* C22: on every delivery path, when the timeout expires the runner sends
\* the child one kill before it returns the outcome; a ProcessLookupError
\* of a child that has exited is tolerated and the outcome is the same.
C22_KillOnTimeout ==
  (pc \in {"parse", "done"} /\ waitEnd = "timeout") =>
    /\ proc.kills = 1
    /\ proc.killErrors = (IF proc.state = "exited" THEN 1 ELSE 0)
    /\ raised = ""
    /\ outcome # None
    /\ outcome[1] \in {TimeoutOutcome(timeout), StartTimeoutOutcome(timeout)}

\* the permission failure of execute_rpc
RouteChmodFailed(r) ==
  r.response # None /\ r.response[1].content.code = 0 - 32000
\* the permission failure of execute_file, nothing spawned
RunnerChmodFailed(o, p) ==
  /\ o # None
  /\ ~o[1].success
  /\ o[1].message.fmt = "Unable to set executable permissions: {e}"
  /\ p.spawns = 0
\* execute_rpc is about to look the file up for an mcp request and finds it
RouteChmodStep ==
  /\ pc = "route" /\ route.kind = "rpc" /\ route.file_type = "mcp"
  /\ ResolvePath(route.file_type, route.filename, file, stored) # None

\* C23: before an invocation the mode of the stored file is set only if the
\* file is not executable: execute_file and execute_rpc leave an executable
\* file as it is, and when setting the mode fails the result is a failure
\* with no process spawned.
C23_ChmodOnlyIfNeeded ==
  [][/\ ((pc = "access" \/ RouteChmodStep) /\ Access(file)) =>
          /\ file' = file
          /\ ~RouteChmodFailed(route')
          /\ outcome' = None
     /\ (pc = "access" /\ file.exists /\ ~Access(file)) =>
          \/ file' = [file EXCEPT !.exec = TRUE] /\ outcome' = None
          \/ file' = file /\ RunnerChmodFailed(outcome', proc')
     /\ (RouteChmodStep /\ ~Access(file)) =>
          \/ file' = [file EXCEPT !.exec = TRUE] /\ ~RouteChmodFailed(route')
          \/ file' = file /\ RouteChmodFailed(route') /\ proc'.spawns = 0]_vars

\* C24: once a call has returned nothing it created still exists; in
\* particular the temporary file of a payload of more than 10000
\* characters is gone.
C24_NothingRetained ==
  (pc \in {"done", "idle"}) => tempFiles = 0

\* C25: a call spawns at most one child; once execute_file has an outcome
\* the call only parses and returns, and once execute_json_rpc has its
\* envelope the call is over.
C25_NoRetries ==
  /\ proc.spawns <= 1
  /\ outcome # None => pc \in {"parse", "done"}
  /\ raised # "" => pc = "done"
  /\ envelope # None => pc = "done"
C25_Witness ==
  /\ RpcDone /\ envelope # None /\ outcome # None /\ ~outcome[1].success
  /\ proc.spawns = 1 /\ proc.rc = Some(1)

\* the status, code and message of the answer in r
Answers(r, status, code, fmt) ==
  /\ r.response # None
  /\ r.response[1].status = status
  /\ r.response[1].content.kind = "error"
  /\ r.response[1].content.code = code
  /\ r.response[1].content.message.fmt = fmt

\* C28: execute_rpc checks in a fixed order: the file, then for mcp the
\* execute permission, then the request object, then the method; the first
\* check that fails gives the answer whatever the later ones would give,
\* and execute_json_rpc is called only when all have passed.
C28_CheckOrder ==
  [][(pc = "route" /\ route.kind = "rpc") =>
       IF ResolvePath(route.file_type, route.filename, file, stored) = None
         THEN Answers(route', 404, 0 - 32602, "File does not exist: {filename}")
              /\ pc' = "done"
       ELSE IF route.file_type = "mcp" /\ ChmodError(file) # NoExc
         THEN Answers(route', 500, 0 - 32000, "Failed to set execute permissions")
              /\ pc' = "done"
       ELSE IF ~route.body.present
         THEN Answers(route', 400, 0 - 32600,
                      "Invalid request: Missing JSON-RPC request object")
              /\ pc' = "done"
       ELSE IF route.body.method = ""
         THEN Answers(route', 400, 0 - 32600, "Invalid request: Missing method field")
              /\ pc' = "done"
       ELSE route'.response = None /\ pc' = "build"]_vars
C28_Witness ==
  /\ RpcAnswered /\ route.path = None /\ route.body.present
  /\ route.body.method = "" /\ route.response[1].status = 404
  /\ proc = NoProc

\* C26: the bytes the child reads up to EOF are exactly a non-empty
\* payload, on both sides of the 10000-character threshold and with single
\* quotes in it; for an empty payload no pipe is wired and the executable
\* is spawned directly.
C26_ChildReadsPayload ==
  pipe.read # None =>
    IF PayloadLen(pipe.payload[1]) = 0
      THEN ~pipe.read[1].wired /\ pipe.path = "exec"
      ELSE /\ pipe.read[1].wired
           /\ pipe.read[1].text = pipe.payload[1].text
           /\ pipe.read[1].pad = pipe.payload[1].pad
           /\ pipe.read[1].tail = <<>>

\* the outcome of call c had it run alone with the same payload: its child
\* read the payload of c and nothing else
AloneOutcomes(c) ==
  LET call == inflight.calls[c]
      own == IF DeliveryPath(call.stdin) = "exec" THEN 0 ELSE c
  IN { CompletedOutcome(rc, ChildOutput(own), <<>>, 0) : rc \in {0, 1} }
       \cup { ChmodExcept(e).value[1] : e \in {ENOENT, EPERM} }
       \cup { ExceptionOutcome(e.text) : e \in {EAGAIN, TimeoutError} }
       \cup { EchoTimeoutResult(call.stdin, ConcTimeout),
              TimeoutOutcome(ConcTimeout) }

\* C27: calls of execute_file in flight at once on one file share no mutable
\* state: a call that has reached its spawn can spawn whatever the other
\* calls are doing, its child reads the payload of that call only, it is
\* the only one to signal its child, and its outcome is one it could have
\* had when run alone
C27_IndependentCalls ==
  \A c \in CallIds :
    LET call == inflight.calls[c]
    IN /\ call.pc = "spawn" => ENABLED ConcSpawn(c, FALSE)
       /\ call.proc.spawns <= 1
       /\ call.read # None =>
            call.read[1] = IF call.proc.path = "exec" THEN 0 ELSE c
       /\ call.proc.kills > 0 => call.pc = "done" /\ call.proc.path # "tempfile"
       /\ call.pc = "done" =>
            /\ call.raised = ""
            /\ call.outcome # None
            /\ call.outcome[1] \in AloneOutcomes(c)
       /\ call.temp # 0 =>
            /\ call.temp \in DOMAIN inflight.temps
            /\ inflight.temps[call.temp] = c

\* two calls with large payloads are in flight on the same file and both
\* children have read their stdin
C27_Witness ==
  /\ \A c \in CallIds :
       /\ inflight.calls[c].proc.path = "tempfile"
       /\ inflight.calls[c].read # None
  /\ \E c \in CallIds : inflight.calls[c].proc.state = "running"
  /\ \E c \in CallIds : inflight.calls[c].pc = "done"

\* the complete contents the final name may hold
CompleteContents == {Some(Old)} \cup {Some(Data(u)) : u \in Uploaders}

\* C29: while a file is replaced through upload_mcp, and afterwards, also
\* when the rename fails, the final name exists and holds the complete
\* previous content or a complete new one, and so does what a reader finds
C29_AtomicReplace ==
  disk.before =>
    /\ FinalContent(disk) \in CompleteContents
    /\ disk.seen # None => disk.seen[1] \in CompleteContents

\* C30: once two concurrent uploads of one filename have both finished
\* (the system having refused nothing), the final file holds the complete
\* content of one of them, the temporary name is gone, and a request that
\* reported success reported the size it sent
C30_UploadsDoNotCorrupt ==
  (/\ \A u \in Uploaders : disk.up[u].pc = "done"
   /\ disk.writable
   /\ ~disk.oserr) =>
    /\ FinalContent(disk) \in {Some(Data(u)) : u \in Uploaders}
    /\ disk.temp = 0
    /\ \A u \in Uploaders :
         disk.up[u].response[1].status = 200 =>
           disk.up[u].response[1].size = Len(Data(u))

====
